---- MODULE Spec2Model ----
(***************************************************************************)
(* The interactive calculator of Learning_Parser_grmtools: the read-      *)
(* evaluate-print loop of src/main.rs around the lrlex lexer and the       *)
(* lrpar parser generated from calc.l and calc.y, with the grammar         *)
(* actions that build.rs documents.                                        *)
(*                                                                         *)
(* An input line is a sequence of one-character strings.  A u64 is kept    *)
(* at its full width as three base-10^8 limbs <<h, m, l>> standing for     *)
(* h*10^16 + m*10^8 + l, so that 2^64-1 and the sums around it are exact.  *)
(***************************************************************************)
EXTENDS Integers, Sequences, FiniteSets, TLC

VARIABLES
    pc,        \* where main is: "prompt" "read" "lex" "call" "parse" "print" "exited" "panicked"
    nread,     \* lines()  : how many lines stdin has delivered so far
    nhandled,  \* history: lines main is done with (skipped, or outcome printed)
    line,      \* l        : the line being handled
    out,       \* what was written to the terminal since the last prompt
    toks,      \* the lexemes the lexer produced for the line
    lexerr,    \* offset of the first byte no lexer rule matches, or -1
    laidx,     \* index of the next lexeme the parser reads
    pstack,    \* the parser's stack: state and value of every symbol
    repairs,   \* the part of the chosen repair sequence not yet applied
    errs,      \* the diagnostics collected by parse
    res,       \* the Option<Result<u64, ()>> returned by parse
    invoked,   \* history: the lexer and parser were run on the line
    nrecov,    \* history: recovery events of the line
    ninserted, \* history: lexemes inserted by recovery and shifted
    errSeen,   \* history: an action of the line returned Err(())
    lastAdd    \* history: operands and outcome of the last Expr '+' Term

vars == <<pc, nread, nhandled, line, out, toks, lexerr, laidx, pstack, repairs, errs,
          res, invoked, nrecov, ninserted, errSeen, lastAdd>>

-----------------------------------------------------------------------------
(* Bounds of the model.                                                    *)

\* pieces (a literal, an operator, a blank, a stray byte) in an arbitrary line
MaxLen == 3
\* terms of a sum a1+...+an
MaxTerms == 3
\* lines stdin delivers before its end
MaxLines == 2

-----------------------------------------------------------------------------
(* Unsigned 64-bit values.                                                 *)

Base == 10^8

U64Max == <<1844, 67440737, 9551615>>

Pow64 == <<1844, 67440737, 9551616>>

Zero == <<0, 0, 0>>

\* a <= b
Leq(a, b) ==
    \/ a[1] < b[1]
    \/ a[1] = b[1] /\ a[2] < b[2]
    \/ a[1] = b[1] /\ a[2] = b[2] /\ a[3] <= b[3]

Fits(v) == Leq(v, U64Max)

\* the mathematical sum, not reduced
BigAdd(a, b) ==
    LET l == a[3] + b[3]
        m == a[2] + b[2] + (l \div Base)
        h == a[1] + b[1] + (m \div Base)
    IN  <<h, m % Base, l % Base>>

\* a - b for a >= b
BigSub(a, b) ==
    LET l  == a[3] - b[3]
        bl == IF l < 0 THEN 1 ELSE 0
        m  == a[2] - b[2] - bl
        bm == IF m < 0 THEN 1 ELSE 0
    IN  <<a[1] - b[1] - bm, (m + Base) % Base, (l + Base) % Base>>

\* v * 10 + d
Mul10Add(v, d) ==
    LET l == v[3] * 10 + d
        m == v[2] * 10 + (l \div Base)
        h == v[1] * 10 + (m \div Base)
    IN  <<h, m % Base, l % Base>>

\* the sum as a release build computes it: modulo 2^64
WrappingAdd(a, b) ==
    LET s == BigAdd(a, b) IN IF Fits(s) THEN s ELSE BigSub(s, Pow64)

-----------------------------------------------------------------------------
(* Result<u64, ()> and the lexeme values of the grammar's value stack.     *)

Ok(v) == [tag |-> "res", ok |-> TRUE, v |-> v]

Err == [tag |-> "res", ok |-> FALSE, v |-> Zero]

NoVal == [tag |-> "none"]

\* $n of a lexeme: Ok(lexeme) from the input, Err(lexeme) when inserted
LexVal(user, t) ==
    [tag |-> "lex", ok |-> user, kind |-> t.kind, start |-> t.start, len |-> t.len]

-----------------------------------------------------------------------------
(* The lexer.                                                              *)

DigitChars == {"0", "1", "2", "3", "4", "5", "6", "7", "8", "9"}

DigitVal(c) ==
    CASE c = "0" -> 0 [] c = "1" -> 1 [] c = "2" -> 2 [] c = "3" -> 3
      [] c = "4" -> 4 [] c = "5" -> 5 [] c = "6" -> 6 [] c = "7" -> 7
      [] c = "8" -> 8 [] c = "9" -> 9

WhiteChars == {" ", "\t"}

OpChars == {"+", "(", ")"}

\* length of the longest run of characters of cs in s starting at i
RECURSIVE RunLen(_, _, _)
RunLen(s, i, cs) ==
    IF i > Len(s) \/ s[i] \notin cs THEN 0 ELSE 1 + RunLen(s, i + 1, cs)

\* the lexemes of s from index i on, appended to acc; stops at the first byte
\* that no rule matches
RECURSIVE LexFrom(_, _, _)
LexFrom(s, i, acc) ==
    IF i > Len(s) THEN [toks |-> acc, err |-> -1]
    ELSE IF s[i] \in WhiteChars THEN LexFrom(s, i + RunLen(s, i, WhiteChars), acc)
    ELSE IF s[i] \in DigitChars THEN
        LET n == RunLen(s, i, DigitChars)
        IN  LexFrom(s, i + n, Append(acc, [kind |-> "INT", start |-> i - 1, len |-> n]))
    ELSE IF s[i] \in OpChars THEN
        LexFrom(s, i + 1, Append(acc, [kind |-> s[i], start |-> i - 1, len |-> 1]))
    ELSE [toks |-> acc, err |-> i - 1]

Lex(s) == LexFrom(s, 1, <<>>)

\* $lexer.span_str(span)
SpanStr(s, start, len) == SubSeq(s, start + 1, start + len)

\* s.parse::<u64>()
RECURSIVE ParseDigits(_, _, _)
ParseDigits(s, i, acc) ==
    IF i > Len(s) THEN Ok(acc)
    ELSE LET v == Mul10Add(acc, DigitVal(s[i]))
         IN  IF Fits(v) THEN ParseDigits(s, i + 1, v) ELSE Err

parse_int(s) == IF s = <<>> THEN Err ELSE ParseDigits(s, 1, Zero)

-----------------------------------------------------------------------------
(* The grammar and its LR tables.                                          *)
(*   1  Expr   -> Expr '+' Term      2  Expr   -> Term                     *)
(*   3  Term   -> Factor                                                   *)
(*   4  Factor -> '(' Expr ')'       5  Factor -> 'INT'                    *)
(* States: 0 start, 1 Expr., 2 Term., 3 Factor., 4 after '(', 5 INT.,      *)
(* 6 after '+', 7 '(' Expr., 8 Expr '+' Term., 9 '(' Expr ')'.             *)

Terminals == {"INT", "+", "(", ")"}

EOF == "$"

ProdLen(p) == CASE p = 1 -> 3 [] p = 2 -> 1 [] p = 3 -> 1 [] p = 4 -> 3 [] p = 5 -> 1

ProdLhs(p) == CASE p = 1 -> "Expr" [] p = 2 -> "Expr" [] p = 3 -> "Term"
                [] p = 4 -> "Factor" [] p = 5 -> "Factor"

Follow == {"+", ")", EOF}

Shift(n) == [a |-> "shift", n |-> n]

Reduce(p) == [a |-> "reduce", n |-> p]

Accept == [a |-> "accept", n |-> 0]

Error == [a |-> "error", n |-> 0]

\* the action table: state s reading a lexeme of kind k
Action(s, k) ==
    CASE s \in {0, 4, 6} -> (IF k = "INT" THEN Shift(5) ELSE IF k = "(" THEN Shift(4) ELSE Error)
      [] s = 1 -> (IF k = "+" THEN Shift(6) ELSE IF k = EOF THEN Accept ELSE Error)
      [] s = 7 -> (IF k = "+" THEN Shift(6) ELSE IF k = ")" THEN Shift(9) ELSE Error)
      [] s = 2 -> (IF k \in Follow THEN Reduce(2) ELSE Error)
      [] s = 3 -> (IF k \in Follow THEN Reduce(3) ELSE Error)
      [] s = 5 -> (IF k \in Follow THEN Reduce(5) ELSE Error)
      [] s = 8 -> (IF k \in Follow THEN Reduce(1) ELSE Error)
      [] s = 9 -> (IF k \in Follow THEN Reduce(4) ELSE Error)

\* the goto table
Goto(s, nt) ==
    CASE nt = "Expr" -> (IF s = 0 THEN 1 ELSE 7)
      [] nt = "Term" -> (IF s = 6 THEN 8 ELSE 2)
      [] nt = "Factor" -> 3

-----------------------------------------------------------------------------
(* Error recovery: the search for the cheapest repair sequences.  It works *)
(* on the stack of states alone; no grammar action runs during the search. *)

\* a repair counts as complete once this many lexemes were shifted in a row
ParseAtLeast == 3

Top(stk) == stk[Len(stk)]

\* the stack after the reductions that lookahead k asks for and the shift of
\* k itself; <<>> when k cannot be shifted
RECURSIVE LrUpto(_, _)
LrUpto(stk, k) ==
    LET act == Action(Top(stk), k)
    IN  IF act.a = "shift" THEN Append(stk, act.n)
        ELSE IF act.a = "reduce" THEN
            LET base == SubSeq(stk, 1, Len(stk) - ProdLen(act.n))
            IN  LrUpto(Append(base, Goto(Top(base), ProdLhs(act.n))), k)
        ELSE <<>>

\* at the end of the input, the reductions lead to acceptance
RECURSIVE AcceptsAt(_)
AcceptsAt(stk) ==
    LET act == Action(Top(stk), EOF)
    IN  IF act.a = "accept" THEN TRUE
        ELSE IF act.a = "reduce" THEN
            LET base == SubSeq(stk, 1, Len(stk) - ProdLen(act.n))
            IN  AcceptsAt(Append(base, Goto(Top(base), ProdLhs(act.n))))
        ELSE FALSE

Insert(k) == [op |-> "Insert", kind |-> k]

Delete == [op |-> "Delete", kind |-> ""]

ShiftRepair == [op |-> "Shift", kind |-> ""]

\* the complete repair sequences of cost exactly c from the configuration
\* (stk, i): ks are the kinds of the lexemes, nsh the shifts the sequence so
\* far ends with, afterDelete whether its last repair is a Delete (an Insert
\* never follows a Delete).  An Insert and a Delete cost 1, a Shift nothing.
RECURSIVE RepairsOfCost(_, _, _, _, _, _)
RepairsOfCost(ks, stk, i, nsh, c, afterDelete) ==
    IF nsh >= ParseAtLeast \/ (i > Len(ks) /\ AcceptsAt(stk))
    THEN IF c = 0 THEN {<<>>} ELSE {}
    ELSE
        LET ins == IF c = 0 \/ afterDelete THEN {}
                   ELSE UNION { IF LrUpto(stk, k) = <<>> THEN {}
                                ELSE { <<Insert(k)>> \o r :
                                       r \in RepairsOfCost(ks, LrUpto(stk, k), i, 0, c - 1, FALSE) } :
                                k \in Terminals }
            del == IF c = 0 \/ i > Len(ks) THEN {}
                   ELSE { <<Delete>> \o r :
                          r \in RepairsOfCost(ks, stk, i + 1, 0, c - 1, TRUE) }
            shf == IF i > Len(ks) \/ LrUpto(stk, ks[i]) = <<>> THEN {}
                   ELSE { <<ShiftRepair>> \o r :
                          r \in RepairsOfCost(ks, LrUpto(stk, ks[i]), i + 1, nsh + 1, c, FALSE) }
        IN  ins \cup del \cup shf

\* the repair sequences of the least cost, looked for up to cost cap
RECURSIVE MinCostRepairs(_, _, _, _, _)
MinCostRepairs(ks, stk, i, c, cap) ==
    IF c > cap THEN {}
    ELSE LET found == RepairsOfCost(ks, stk, i, 0, c, FALSE)
         IN  IF found # {} THEN found ELSE MinCostRepairs(ks, stk, i, c + 1, cap)

\* a repair sequence without the shifts it ends with
RECURSIVE Simplify(_)
Simplify(r) ==
    IF r # <<>> /\ r[Len(r)].op = "Shift" THEN Simplify(SubSeq(r, 1, Len(r) - 1)) ELSE r

Kinds(ts) == [j \in 1..Len(ts) |-> ts[j].kind]

States(stk) == [j \in 1..Len(stk) |-> stk[j].st]

\* inserting what is missing and deleting what is left always repairs a line
RepairCostCap(ts) == Len(ts) + 1

\* the repair sequences recovery chooses among at lexeme i
RepairSeqs(ts, stk, i) ==
    { Simplify(r) : r \in MinCostRepairs(Kinds(ts), States(stk), i, 1, RepairCostCap(ts)) }

-----------------------------------------------------------------------------
(* The grammar actions.                                                    *)

\* the action with the addition left out: Ok($3?) once $1 is known to be Ok
ExprAddRightOnly(a, b) ==
    IF ~a.ok THEN Err
    ELSE IF ~b.ok THEN Err
    ELSE Ok(b.v)

\* the action with unwrap_or(0) in place of `?`: an Err operand counts as 0
ExprAddErrAsZero(a, b) ==
    Ok(WrappingAdd(IF a.ok THEN a.v ELSE Zero, IF b.ok THEN b.v ELSE Zero))

\* Expr -> Expr '+' Term { Ok($1? + $3?) }: the value the action returns
\* when it returns; an overflowing sum is the wrapped one
ExprAdd(a, b) ==
    IF ~a.ok THEN Err
    ELSE IF ~b.ok THEN Err
    ELSE Ok(WrappingAdd(a.v, b.v))

\* `+` on two u64 whose sum does not fit: a build with overflow checks
\* panics here, a build without them wraps
AddOverflows(a, b) == a.ok /\ b.ok /\ ~Fits(BigAdd(a.v, b.v))

\* Expr -> Term { $1 }
ExprTerm(t) == t

\* Term -> Factor { $1 }
TermFactor(f) == f

\* the action that fails instead of handing $2 on
FactorParenDropsValue(lp, e, rp) == Err

\* Factor -> '(' Expr ')' { $2 }
FactorParen(lp, e, rp) == e

\* Factor -> 'INT' { let v = $1.map_err(|_| ())?; parse_int($lexer.span_str(v.span())) }
FactorInt(s, lx) ==
    IF ~lx.ok THEN Err ELSE parse_int(SpanStr(s, lx.start, lx.len))

-----------------------------------------------------------------------------
(* What parse returns and what main prints.                                *)

None == [tag |-> "None"]

Some(r) == [tag |-> "Some", val |-> r]

\* offset of lexeme i; past the last lexeme, the end of the last one
LexemeStart(ts, i) ==
    IF i <= Len(ts) THEN ts[i].start
    ELSE IF ts = <<>> THEN 0
    ELSE ts[Len(ts)].start + ts[Len(ts)].len

ParseError(ts, i, rs) == [kind |-> "parse", pos |-> LexemeStart(ts, i), repairs |-> rs]

LexError(off) == [kind |-> "lex", pos |-> off, repairs |-> {}]

\* l.is_empty(), without the trim
SkipLineNoTrim(l) == l = <<>>

\* l.trim().is_empty()
SkipLine(l) == \A j \in 1..Len(l) : l[j] \in WhiteChars

PromptLine == [stream |-> "stdout", kind |-> "prompt", pos |-> -1, val |-> Zero]

\* the for loop running over the diagnostics from the last to the first
NextDiagReversed(es, k) == es[Len(es) - k]

\* the diagnostic the for loop prints after k of them were printed
NextDiag(es, k) == es[k + 1]

\* println!("{}", e.pp(..))
DiagLine(e) == [stream |-> "stdout", kind |-> e.kind, pos |-> e.pos, val |-> Zero]

\* the match with Some(_) in place of Some(Ok(r)): any result is printed
OutcomeLineAnySome(r) ==
    IF r.tag = "Some"
    THEN [stream |-> "stdout", kind |-> "Result", pos |-> -1, val |-> r.val.v]
    ELSE [stream |-> "stderr", kind |-> "Unable", pos |-> -1, val |-> Zero]

\* match res { Some(Ok(r)) => println!("Result: {:?}", r), _ => eprintln!(..) }
OutcomeLine(r) ==
    IF r.tag = "Some" /\ r.val.ok
    THEN [stream |-> "stdout", kind |-> "Result", pos |-> -1, val |-> r.val.v]
    ELSE [stream |-> "stderr", kind |-> "Unable", pos |-> -1, val |-> Zero]

-----------------------------------------------------------------------------
(* The lines stdin may deliver.                                            *)

MaxLit == <<"1","8","4","4","6","7","4","4","0","7","3","7","0","9","5","5","1","6","1","5">>

MaxLess1Lit == <<"1","8","4","4","6","7","4","4","0","7","3","7","0","9","5","5","1","6","1","4">>

OverLit == <<"1","8","4","4","6","7","4","4","0","7","3","7","0","9","5","5","1","6","1","6">>

\* the pieces arbitrary lines are made of
Pieces == {<<"1">>, MaxLit, <<"+">>, <<"(">>, <<")">>, <<" ">>, <<"@">>}

\* the literals of the sums and of the parenthesized lines
Lits == {<<"0">>, <<"1">>, <<"2">>, <<"3">>, MaxLess1Lit, MaxLit, OverLit}

RECURSIVE Concat(_)
Concat(ss) == IF ss = <<>> THEN <<>> ELSE Head(ss) \o Concat(Tail(ss))

RECURSIVE Join(_)
Join(ss) == IF Len(ss) <= 1 THEN Concat(ss) ELSE Head(ss) \o <<"+">> \o Join(Tail(ss))

ArbitraryLines == { Concat(ps) : ps \in UNION { [1..n -> Pieces] : n \in 0..MaxLen } }

BlankLines == { <<>>, <<"\t">>, <<" ", "\t">>, <<"\t", " ", " ">> }

SumLines == { Join(ls) : ls \in UNION { [1..n -> Lits] : n \in 1..MaxTerms } }

LeftGrouped(a, b, c) == <<"(">> \o a \o <<"+">> \o b \o <<")", "+">> \o c

RightGrouped(a, b, c) == a \o <<"+", "(">> \o b \o <<"+">> \o c \o <<")">>

GroupedLines ==
    { LeftGrouped(t[1], t[2], t[3]) : t \in Lits \X Lits \X Lits }
        \cup { RightGrouped(t[1], t[2], t[3]) : t \in Lits \X Lits \X Lits }

Unclosed(a, b) == <<"(">> \o a \o <<"+">> \o b

UnclosedLines == { Unclosed(t[1], t[2]) : t \in Lits \X Lits }

InputLines == ArbitraryLines \cup BlankLines \cup SumLines \cup GroupedLines \cup UnclosedLines

-----------------------------------------------------------------------------
(* The state machine.                                                      *)

NoAdd == [a |-> NoVal, b |-> NoVal, r |-> NoVal]

Panicked == [tag |-> "panic"]

Init ==
    /\ pc = "prompt"
    /\ nread = 0
    /\ nhandled = 0
    /\ line = <<>>
    /\ out = <<>>
    /\ toks = <<>>
    /\ lexerr = -1
    /\ laidx = 1
    /\ pstack = <<>>
    /\ repairs = <<>>
    /\ errs = <<>>
    /\ res = None
    /\ invoked = FALSE
    /\ nrecov = 0
    /\ ninserted = 0
    /\ errSeen = FALSE
    /\ lastAdd = NoAdd

\* main.rs 213-216: the top of the loop; nothing of the previous line is kept
PrintPrompt ==
    /\ pc = "prompt"
    /\ pc' = "read"
    /\ out' = <<PromptLine>>
    /\ line' = <<>>
    /\ toks' = <<>>
    /\ lexerr' = -1
    /\ laidx' = 1
    /\ pstack' = <<>>
    /\ repairs' = <<>>
    /\ errs' = <<>>
    /\ res' = None
    /\ invoked' = FALSE
    /\ nrecov' = 0
    /\ ninserted' = 0
    /\ errSeen' = FALSE
    /\ lastAdd' = NoAdd
    /\ UNCHANGED <<nread, nhandled>>

\* main.rs 217-221: Some(Ok(l)); a blank line goes back to the prompt
ReadLine ==
    /\ pc = "read"
    /\ nread < MaxLines
    /\ \E l \in InputLines :
        /\ line' = l
        /\ pc' = IF SkipLine(l) THEN "prompt" ELSE "lex"
        /\ nhandled' = IF SkipLine(l) THEN nhandled + 1 ELSE nhandled
    /\ nread' = nread + 1
    /\ UNCHANGED <<out, toks, lexerr, laidx, pstack, repairs, errs, res,
                   invoked, nrecov, ninserted, errSeen, lastAdd>>

\* main.rs 235: the end of stdin, or a read error, leaves the loop
ReadEnd ==
    /\ pc = "read"
    /\ pc' = "exited"
    /\ UNCHANGED <<nread, nhandled, line, out, toks, lexerr, laidx, pstack, repairs, errs,
                   res, invoked, nrecov, ninserted, errSeen, lastAdd>>

\* main.rs 224: lexerdef.lexer(l) lexes the whole line
NewLexer ==
    /\ pc = "lex"
    /\ toks' = Lex(line).toks
    /\ lexerr' = Lex(line).err
    /\ invoked' = TRUE
    /\ pc' = "call"
    /\ UNCHANGED <<nread, nhandled, line, out, laidx, pstack, repairs, errs, res,
                   nrecov, ninserted, errSeen, lastAdd>>

\* main.rs 226: calc_y::parse(&lexer); a lexing error ends the parse at once
ParseCall ==
    /\ pc = "call"
    /\ IF lexerr >= 0
       THEN /\ errs' = <<LexError(lexerr)>>
            /\ res' = None
            /\ pc' = "print"
            /\ UNCHANGED pstack
       ELSE /\ pstack' = <<[st |-> 0, val |-> NoVal]>>
            /\ pc' = "parse"
            /\ UNCHANGED <<errs, res>>
    /\ laidx' = 1
    /\ UNCHANGED <<nread, nhandled, line, out, toks, lexerr, repairs, invoked,
                   nrecov, ninserted, errSeen, lastAdd>>

\* the repair being applied inserts a lexeme
Inserting == repairs # <<>> /\ Head(repairs).op = "Insert"

Deleting == repairs # <<>> /\ Head(repairs).op = "Delete"

\* the kind of the lexeme the parser looks at
Lookahead ==
    IF Inserting THEN Head(repairs).kind
    ELSE IF laidx <= Len(toks) THEN toks[laidx].kind
    ELSE EOF

\* the parser's table entry for the current state and lookahead
Act == Action(pstack[Len(pstack)].st, Lookahead)

Parsing == pc = "parse" /\ ~Deleting

\* the value stack after production p put value v in place of its symbols
Reduced(p, v) ==
    LET base == SubSeq(pstack, 1, Len(pstack) - ProdLen(p))
    IN  Append(base, [st |-> Goto(base[Len(base)].st, ProdLhs(p)), val |-> v])

\* $n of the production being reduced, which has m symbols
Sym(n, m) == pstack[Len(pstack) - m + n].val

ShiftLexeme ==
    /\ Parsing
    /\ Act.a = "shift"
    /\ LET lx == IF Inserting
                 THEN LexVal(FALSE, [kind |-> Lookahead, start |-> LexemeStart(toks, laidx), len |-> 0])
                 ELSE LexVal(TRUE, toks[laidx])
       IN  pstack' = Append(pstack, [st |-> Act.n, val |-> lx])
    /\ laidx' = IF Inserting THEN laidx ELSE laidx + 1
    /\ ninserted' = IF Inserting THEN ninserted + 1 ELSE ninserted
    /\ repairs' = IF repairs # <<>> THEN Tail(repairs) ELSE repairs
    /\ UNCHANGED <<pc, nread, nhandled, line, out, toks, lexerr, errs, res, invoked,
                   nrecov, errSeen, lastAdd>>

\* a Delete of the repair sequence skips the next lexeme
ApplyDelete ==
    /\ pc = "parse"
    /\ Deleting
    /\ laidx' = laidx + 1
    /\ repairs' = Tail(repairs)
    /\ UNCHANGED <<pc, nread, nhandled, line, out, toks, lexerr, pstack, errs, res,
                   invoked, nrecov, ninserted, errSeen, lastAdd>>

ReduceWith(p, v) ==
    /\ pstack' = Reduced(p, v)
    /\ errSeen' = (errSeen \/ ~v.ok)
    /\ UNCHANGED <<pc, nread, nhandled, line, out, toks, lexerr, laidx, repairs, errs,
                   res, invoked, nrecov, ninserted>>

ReduceExprAdd ==
    /\ Parsing
    /\ Act = Reduce(1)
    /\ ReduceWith(1, ExprAdd(Sym(1, 3), Sym(3, 3)))
    /\ lastAdd' = [a |-> Sym(1, 3), b |-> Sym(3, 3), r |-> ExprAdd(Sym(1, 3), Sym(3, 3))]

\* the same reduction in a build with overflow checks: the process aborts
ReduceExprAddPanic ==
    /\ Parsing
    /\ Act = Reduce(1)
    /\ AddOverflows(Sym(1, 3), Sym(3, 3))
    /\ pc' = "panicked"
    /\ lastAdd' = [a |-> Sym(1, 3), b |-> Sym(3, 3), r |-> Panicked]
    /\ UNCHANGED <<nread, nhandled, line, out, toks, lexerr, laidx, pstack, repairs, errs,
                   res, invoked, nrecov, ninserted, errSeen>>

ReduceExprTerm ==
    /\ Parsing
    /\ Act = Reduce(2)
    /\ ReduceWith(2, ExprTerm(Sym(1, 1)))
    /\ UNCHANGED lastAdd

ReduceTermFactor ==
    /\ Parsing
    /\ Act = Reduce(3)
    /\ ReduceWith(3, TermFactor(Sym(1, 1)))
    /\ UNCHANGED lastAdd

ReduceFactorParen ==
    /\ Parsing
    /\ Act = Reduce(4)
    /\ ReduceWith(4, FactorParen(Sym(1, 3), Sym(2, 3), Sym(3, 3)))
    /\ UNCHANGED lastAdd

ReduceFactorInt ==
    /\ Parsing
    /\ Act = Reduce(5)
    /\ ReduceWith(5, FactorInt(line, Sym(1, 1)))
    /\ UNCHANGED lastAdd

\* the diagnostics after a recovery event at lexeme i with repair sequences rs
Recorded(es, ts, i, rs) == Append(es, ParseError(ts, i, rs))

\* a lexeme the table has no action for: one diagnostic, and the parse goes
\* on with one of the cheapest repair sequences (it ends when there is none)
Recover ==
    /\ Parsing
    /\ Act.a = "error"
    /\ LET rs == RepairSeqs(toks, pstack, laidx)
       IN  /\ errs' = Recorded(errs, toks, laidx, rs)
           /\ IF rs = {}
              THEN /\ res' = None
                   /\ pc' = "print"
                   /\ UNCHANGED repairs
              ELSE /\ \E r \in rs : repairs' = r
                   /\ UNCHANGED <<pc, res>>
    /\ nrecov' = nrecov + 1
    /\ UNCHANGED <<nread, nhandled, line, out, toks, lexerr, laidx, pstack, invoked,
                   ninserted, errSeen, lastAdd>>

\* the end of the input in the accepting state: parse returns the root value
AcceptParse ==
    /\ Parsing
    /\ Act.a = "accept"
    /\ res' = Some(pstack[Len(pstack)].val)
    /\ pc' = "print"
    /\ UNCHANGED <<nread, nhandled, line, out, toks, lexerr, laidx, pstack, repairs, errs,
                   invoked, nrecov, ninserted, errSeen, lastAdd>>

\* diagnostics printed so far for the line
Printed == Len(out) - 1

\* main.rs 227-229: one diagnostic per turn of the for loop
PrintErr ==
    /\ pc = "print"
    /\ Printed < Len(errs)
    /\ out' = Append(out, DiagLine(NextDiag(errs, Printed)))
    /\ UNCHANGED <<pc, nread, nhandled, line, toks, lexerr, laidx, pstack, repairs, errs,
                   res, invoked, nrecov, ninserted, errSeen, lastAdd>>

\* main.rs 230-233: the outcome, and back to the top of the loop
PrintOutcome ==
    /\ pc = "print"
    /\ Printed >= Len(errs)
    /\ out' = Append(out, OutcomeLine(res))
    /\ pc' = "prompt"
    /\ nhandled' = nhandled + 1
    /\ UNCHANGED <<nread, line, toks, lexerr, laidx, pstack, repairs, errs,
                   res, invoked, nrecov, ninserted, errSeen, lastAdd>>

Next ==
    \/ PrintPrompt
    \/ ReadLine
    \/ ReadEnd
    \/ NewLexer
    \/ ParseCall
    \/ ShiftLexeme
    \/ ApplyDelete
    \/ ReduceExprAdd
    \/ ReduceExprAddPanic
    \/ ReduceExprTerm
    \/ ReduceTermFactor
    \/ ReduceFactorParen
    \/ ReduceFactorInt
    \/ Recover
    \/ AcceptParse
    \/ PrintErr
    \/ PrintOutcome

Spec == Init /\ [][Next]_vars

-----------------------------------------------------------------------------
(* Vocabulary of the properties.                                           *)

\* parse has returned to main for the current line
Returned == pc = "print" \/ (pc = "prompt" /\ invoked)

\* main is back at the top of the loop after handling a line it did not skip
LineDone == pc = "prompt" /\ invoked

SomeOk(r) == r.tag = "Some" /\ r.val.ok

\* where the terms of a line end: before it, at every '+', after it
Cuts(l) == {0} \cup {j \in 1..Len(l) : l[j] = "+"} \cup {Len(l) + 1}

NthCut(l, k) == CHOOSE c \in Cuts(l) : Cardinality({x \in Cuts(l) : x < c}) = k - 1

\* the terms of a line cut at every '+'
TermsOf(l) ==
    [k \in 1..(Cardinality(Cuts(l)) - 1) |-> SubSeq(l, NthCut(l, k) + 1, NthCut(l, k + 1) - 1)]

NoEmptyTerm(ts) == \A j \in 1..Len(ts) : ts[j] # <<>>

IsPlainSum(l) ==
    /\ \A j \in 1..Len(l) : l[j] \in DigitChars \cup {"+"}
    /\ NoEmptyTerm(TermsOf(l))

\* the mathematical value of a decimal literal; 2^64 stands for every value
\* above 2^64-1
RECURSIVE DecimalFrom(_, _, _)
DecimalFrom(s, i, acc) ==
    IF i > Len(s) THEN acc
    ELSE LET v == Mul10Add(acc, DigitVal(s[i]))
         IN  IF Fits(v) THEN DecimalFrom(s, i + 1, v) ELSE Pow64

ValueOf(s) == DecimalFrom(s, 1, Zero)

\* the mathematical sum of the first n terms; 2^64 as soon as a term or a
\* running sum is above 2^64-1
RECURSIVE SumFrom(_, _, _, _)
SumFrom(ts, i, n, acc) ==
    IF i > n THEN acc
    ELSE LET v == BigAdd(acc, ValueOf(ts[i]))
         IN  IF Fits(v) THEN SumFrom(ts, i + 1, n, v) ELSE Pow64

SumOfFirst(ts, n) == SumFrom(ts, 1, n, Zero)

\* every literal and every running sum fits in 64 bits
RunningSumsFit(ts) == Fits(SumOfFirst(ts, Len(ts)))

Six == <<0, 0, 6>>

-----------------------------------------------------------------------------
(* C1: a line a1+a2+...+an whose literals and running sums fit in 64 bits  *)
(* makes parse return Some(Ok(v)), v the left-to-right sum, without any    *)
(* diagnostic: the last addition adds an to the sum of a1..a(n-1).         *)
C1_SumLeftToRight ==
    IsPlainSum(line) /\ RunningSumsFit(TermsOf(line)) =>
        /\ pc # "panicked"
        /\ Returned =>
            LET ts == TermsOf(line)
                n  == Len(ts)
            IN  /\ res = Some(Ok(SumOfFirst(ts, n)))
                /\ errs = <<>>
                /\ n >= 2 => /\ lastAdd.a = Ok(SumOfFirst(ts, n - 1))
                             /\ lastAdd.b = Ok(ValueOf(ts[n]))

C1_Witness ==
    /\ LineDone
    /\ line = Join(<<MaxLess1Lit, <<"0">>, <<"1">>>>)
    /\ res = Some(Ok(U64Max))
    /\ errs = <<>>

-----------------------------------------------------------------------------
(* C2: whenever Expr -> Expr '+' Term is reduced with operands Ok(a) and   *)
(* Ok(b), the action yields Ok(a+b) if a+b <= 2^64-1 and Err(()) if not,   *)
(* never the sum modulo 2^64.                                              *)
C2_OverflowIsErr ==
    lastAdd.a.tag = "res" /\ lastAdd.a.ok /\ lastAdd.b.ok =>
        LET s == BigAdd(lastAdd.a.v, lastAdd.b.v)
        IN  lastAdd.r = IF Fits(s) THEN Ok(s) ELSE Err

-----------------------------------------------------------------------------
(* C3: once recovery has inserted a lexeme the user did not type, the      *)
(* result that parse returns is never Some(Ok(v)).                         *)
C3_InsertedTokenTaints ==
    Returned /\ ninserted > 0 => ~SomeOk(res)

-----------------------------------------------------------------------------
(* C4: no input line makes the process abort.                              *)
C4_NeverAborts == pc # "panicked"

-----------------------------------------------------------------------------
(* C5: after parse has returned, main prints the diagnostics one per line  *)
(* in the order parse returned them and then exactly one outcome: the      *)
(* value v iff the result is Some(Ok(v)), else the unable-to-evaluate      *)
(* message; no outcome comes before a diagnostic.                          *)
C5_DiagnosticsThenOutcome ==
    Returned =>
        LET n == Len(errs)
        IN  /\ out[1].kind = "prompt"
            /\ Len(out) <= n + 2
            /\ \A j \in 2..Len(out) : j <= n + 1 =>
                   /\ out[j].kind = errs[j - 1].kind
                   /\ out[j].pos = errs[j - 1].pos
            /\ pc = "print" => Len(out) <= n + 1
            /\ LineDone =>
                   /\ Len(out) = n + 2
                   /\ IF SomeOk(res)
                      THEN out[n + 2].kind = "Result" /\ out[n + 2].val = res.val.v
                      ELSE out[n + 2].kind = "Unable"

C5_Witness ==
    /\ LineDone
    /\ Len(errs) = 2
    /\ errs[1].pos # errs[2].pos
    /\ res = Some(Err)
    /\ Len(out) = 4
    /\ out[4].kind = "Unable"

-----------------------------------------------------------------------------
(* C6: a line that is empty or all whitespace is skipped: neither lexer    *)
(* nor parser runs on it and nothing but the prompt is printed for it.     *)
WhiteOnly(l) == \A j \in 1..Len(l) : l[j] = " " \/ l[j] = "\t"

C6_BlankLineSkipped ==
    WhiteOnly(line) =>
        /\ ~invoked
        /\ pc \in {"prompt", "read", "exited"}
        /\ toks = <<>> /\ errs = <<>> /\ res = None
        /\ \A j \in 1..Len(out) : out[j].kind = "prompt"

C6_Witness ==
    /\ pc = "prompt"
    /\ nread = 1
    /\ line = <<" ", "\t">>
    /\ out = <<PromptLine>>

-----------------------------------------------------------------------------
(* C7: Err is absorbing: an addition with an Err operand yields Err(())    *)
(* and does not add; an Err produced by an action stays on the value stack *)
(* through every later reduction; the root result is then Some(Err(())).   *)
C7_ErrAbsorbing ==
    /\ lastAdd.a.tag = "res" /\ (~lastAdd.a.ok \/ ~lastAdd.b.ok) => lastAdd.r = Err
    /\ pc = "parse" /\ errSeen =>
           \E j \in 1..Len(pstack) : pstack[j].val.tag = "res" /\ pstack[j].val = Err
    /\ Returned /\ errSeen /\ res.tag = "Some" => res = Some(Err)

C7_Witness ==
    /\ LineDone
    /\ line = LeftGrouped(OverLit, MaxLit, <<"2">>)
    /\ errSeen
    /\ res = Some(Err)

-----------------------------------------------------------------------------
(* C8: grouping does not change an error-free sum that fits: (a+b)+c and   *)
(* a+(b+c) both evaluate to Ok(a+b+c) without a diagnostic; (1+2)+3 and    *)
(* 1+(2+3) evaluate to 6.                                                  *)
GroupedCases ==
    { [l |-> LeftGrouped(t[1], t[2], t[3]), r |-> RightGrouped(t[1], t[2], t[3]),
       fits |-> RunningSumsFit(<<t[1], t[2], t[3]>>),
       sum |-> SumOfFirst(<<t[1], t[2], t[3]>>, 3)] : t \in Lits \X Lits \X Lits }

C8_GroupingKeepsValue ==
    Returned =>
        /\ \A g \in GroupedCases : g.fits /\ line \in {g.l, g.r} =>
               res = Some(Ok(g.sum)) /\ errs = <<>>
        /\ line \in { LeftGrouped(<<"1">>, <<"2">>, <<"3">>),
                      RightGrouped(<<"1">>, <<"2">>, <<"3">>) } => res = Some(Ok(Six))

C8_Witness ==
    /\ LineDone
    /\ line = RightGrouped(<<"1">>, <<"2">>, <<"3">>)
    /\ res = Some(Ok(Six))
    /\ out[Len(out)].kind = "Result"

-----------------------------------------------------------------------------
(* C9: every recovery event records exactly one diagnostic; the            *)
(* diagnostics of a line are recorded, and printed, in increasing order of *)
(* input position; the line +1+ gets at least two, the one at the leading  *)
(* + before the one after the trailing +.                                  *)
C9_OneDiagnosticPerRecovery ==
    /\ pc = "parse" \/ (Returned /\ lexerr < 0) => Len(errs) = nrecov
    /\ \A j \in 1..Len(errs) : \A k \in 1..Len(errs) :
           j < k => errs[j].pos < errs[k].pos
    /\ \A j \in 2..Len(out) : \A k \in 2..Len(out) :
           j < k /\ out[k].kind \in {"parse", "lex"} => out[j].pos < out[k].pos
    /\ LineDone /\ line = <<"+", "1", "+">> =>
           /\ Len(errs) >= 2
           /\ errs[1].pos = 0
           /\ errs[Len(errs)].pos = 3
           /\ out[2].pos = 0 /\ out[Len(out) - 1].pos = 3

C9_Witness ==
    /\ LineDone
    /\ line = <<"+", "1", "+">>
    /\ nrecov = 2
    /\ Len(out) = 4
    /\ out[2].pos = 0 /\ out[3].pos = 3

-----------------------------------------------------------------------------------------------------------------------------------------------------------------------------------------------------------------------------
(* Every step of a call of the parser makes progress: it consumes a        *)
(* lexeme, applies a repair, records a recovery or shrinks what is left to *)
(* reduce, so no call runs for ever.                                       *)
UnitRank(st) == CASE st \in {5, 9} -> 3 [] st = 3 -> 2 [] st \in {2, 8} -> 1 [] OTHER -> 0

ParseRank ==
    IF pstack = <<>> THEN 0
    ELSE 8 * (laidx + ninserted + nrecov)
           - (3 * Len(pstack) + UnitRank(pstack[Len(pstack)].st))

ParseMakesProgress == [][pc = "parse" /\ pc' = "parse" => ParseRank' > ParseRank]_vars

-----------------------------------------------------------------------------
(* C10: main handles the lines one at a time in the order stdin delivers   *)
(* them, and it stops only by leaving the loop at the end of stdin, with   *)
(* every line it read handled.                                             *)
C10_EveryLineHandled ==
    /\ nhandled <= nread /\ nread <= nhandled + 1
    /\ pc \in {"exited", "panicked"} => pc = "exited" /\ nhandled = nread

====
